---- MODULE Spec2Model ----
(***************************************************************************)
(* Model of the account-block construction pipeline of znn.ts              *)
(* (lib/src/utils/block.ts, class BlockUtils).                             *)
(*                                                                         *)
(* A pipeline is one invocation of BlockUtils.send on one template with    *)
(* one key pair.  Every `await` of the source is a suspension point: an    *)
(* action of the model is one collaborator call together with the          *)
(* synchronous code that follows it up to the next call.                   *)
(*                                                                         *)
(* Values.  A JavaScript string is a sequence of characters, a Buffer a    *)
(* sequence of bytes (a byte is a pair of hex digits), `null` is the empty *)
(* sequence <<>> and a present object b is <<b>>.  A Hash object is a      *)
(* record [bytes, obj]: `obj` is the object's identity, which is what the  *)
(* `==` of the source compares.                                            *)
(***************************************************************************)
EXTENDS Integers, Sequences, FiniteSets, TLC

\* ---------------------------------------------------------------- bounds

\* Largest requiredDifficulty the Plasma-Quota collaborator answers.
MaxDifficulty == 2
\* Largest height the ledger's frontier momentum reaches.
MaxMomentum == 2
\* Number of send invocations the callers of the concurrent model make.
MaxRuns == 3

\* ------------------------------------------------------------ primitives

\* The exported constant emptyHash: one shared object of 32 zero bytes.
ZeroBytes == <<"zero32">>
emptyHash == [bytes |-> ZeroBytes, obj |-> "emptyHash"]

\* A Hash object built anywhere else (Hash.parse, Hash.digest, the RPC
\* decoder): its own object, whatever its bytes.
NewHash(bytes) == [bytes |-> bytes, obj |-> "other"]

\* Hash.digest: a 256-bit cryptographic digest, collision-free on the
\* inputs of the model, so it is modelled by the tagged input.
Digest(buf) == NewHash(<<"digest", buf>>)

\* Hash.getBytes / Address.getBytes.
HashBytes(h) == h.bytes
AddressBytes(a) == <<"addr", a>>

\* Address.toString: the bech32 text of the 20-byte core.
AddressToString(a) == <<"z", "1", a>>

\* HashHeight.getBytes: the hash's bytes followed by the height.
HashHeightBytes(hh) == <<hh.hash.bytes, hh.height>>

\* BytesUtils.longToBytes / numberToBytes on the non-negative numbers of the
\* model: the fixed-width big-endian encoding, injective on them.
LongToBytes(n) == <<"u64", n>>
NumberToBytes(n, len) == <<"u", len, n>>

\* Buffer.from(s, "hex"): one byte per pair of hex digits, a trailing odd
\* digit dropped.
BufferFromHex(s) == [i \in 1..(Len(s) \div 2) |-> <<s[2 * i - 1], s[2 * i]>>]

\* BytesUtils.leftPadBytes(buf, size): zero bytes in front, up to size.
LeftPadBytes(buf, size) ==
    IF Len(buf) >= size THEN buf
    ELSE [i \in 1..(size - Len(buf)) |-> <<"0", "0">>] \o buf

\* The all-zero nonce sentinel '0000000000000000'.
ZeroNonce == [i \in 1..16 |-> "0"]

\* ------------------------------------------------------------ block types

SendTypes == {"userSend", "contractSend"}
ReceiveTypes == {"userReceive", "genesisReceive", "contractReceive"}
BlockTypes == SendTypes \cup ReceiveTypes

isSendBlock(blockType) == blockType \in {"userSend", "contractSend"}

isReceiveBlock(blockType) ==
    blockType \in {"userReceive", "genesisReceive", "contractReceive"}

\* ------------------------------------------------------- canonical encoder

\* The sixteen fields concatenated by getTransactionHash, in order.  Every
\* field has a fixed width, so the concatenation is modelled by the tuple.
TransactionMutNoDifficulty(t) ==
    << LongToBytes(t.version),
       LongToBytes(t.chainIdentifier),
       <<"type", t.blockType>>,
       HashBytes(t.previousHash),
       LongToBytes(t.height),
       HashHeightBytes(t.momentumAcknowledged),
       AddressBytes(t.address),
       AddressBytes(t.toAddress),
       NumberToBytes(t.amount, 32),
       <<"zts", t.tokenStandard>>,
       t.fromBlockHash.bytes,
       HashBytes(Digest(<<>>)),
       HashBytes(Digest(t.data)),
       LongToBytes(t.fusedPlasma),
       LongToBytes(t.fusedPlasma),
       LeftPadBytes(BufferFromHex(t.nonce), 8) >>
TransactionBytes(t) ==
    << LongToBytes(t.version),
       LongToBytes(t.chainIdentifier),
       <<"type", t.blockType>>,
       HashBytes(t.previousHash),
       LongToBytes(t.height),
       HashHeightBytes(t.momentumAcknowledged),
       AddressBytes(t.address),
       AddressBytes(t.toAddress),
       NumberToBytes(t.amount, 32),
       <<"zts", t.tokenStandard>>,
       t.fromBlockHash.bytes,
       HashBytes(Digest(<<>>)),
       HashBytes(Digest(t.data)),
       LongToBytes(t.fusedPlasma),
       LongToBytes(t.difficulty),
       LeftPadBytes(BufferFromHex(t.nonce), 8) >>

getTransactionHash(t) == Digest(TransactionBytes(t))

\* keyPair.sign(transaction.hash.getBytes()).
Sign(keyPair, bytes) == <<"sig", keyPair.publicKey, bytes>>

_getTransactionSignature(keyPair, t) == Sign(keyPair, HashBytes(t.hash))

_getPoWDataMutToAddress(t) ==
    Digest(<<AddressBytes(t.toAddress), HashBytes(t.previousHash)>>)
_getPoWData(t) == Digest(<<AddressBytes(t.address), HashBytes(t.previousHash)>>)

\* ------------------------------------------------------------ the template

Addresses == {"a1", "a2"}

\* The key material of the callers: getAddress and getPublicKey of each.
KeyPairs == { [address |-> "a1", publicKey |-> "pk1"],
              [address |-> "a2", publicKey |-> "pk2"] }

\* A template as its constructor leaves it: nothing set.
EmptyTemplate ==
    [ version |-> 1, chainIdentifier |-> 1, blockType |-> "userSend",
      hash |-> emptyHash, previousHash |-> emptyHash, height |-> 0,
      momentumAcknowledged |-> [hash |-> emptyHash, height |-> 0],
      address |-> "a0", toAddress |-> "a0", amount |-> 0,
      tokenStandard |-> "znn", fromBlockHash |-> emptyHash, data |-> <<>>,
      fusedPlasma |-> 0, difficulty |-> 0, nonce |-> <<>>,
      publicKey |-> <<>>, signature |-> <<>> ]

\* Values a caller may put in fromBlockHash: the shared sentinel, a Hash
\* parsed from 32 zero bytes (another object, same bytes), a real hash.
SomeHash == NewHash(<<"h1">>)
FromBlockHashes == {emptyHash, NewHash(ZeroBytes), SomeHash}

\* Linkage fields a caller may have left in the template.
StaleLinkage ==
    [height |-> 7, previousHash |-> SomeHash,
     momentumAcknowledged |-> [hash |-> SomeHash, height |-> 9]]
FreshLinkage ==
    [height |-> 0, previousHash |-> emptyHash,
     momentumAcknowledged |-> [hash |-> emptyHash, height |-> 0]]

\* A nonce a caller may have left in the template.
StaleNonce == <<"a", "b">>

MakeTemplate(bt, to, from, data, diff, nonce, link) ==
    [EmptyTemplate EXCEPT
        !.blockType = bt, !.toAddress = to, !.amount = 100,
        !.fromBlockHash = from, !.data = data,
        !.difficulty = diff, !.nonce = nonce,
        !.height = link.height, !.previousHash = link.previousHash,
        !.momentumAcknowledged = link.momentumAcknowledged]

\* The templates callers hand to send in the single-pipeline model.
Templates ==
    { MakeTemplate(bt, "a2", from, data, diff, nonce, link) :
        bt \in BlockTypes, from \in FromBlockHashes,
        data \in {<<>>, <<"d">>}, diff \in {0, 1},
        nonce \in {<<>>, StaleNonce}, link \in {FreshLinkage, StaleLinkage} }

\* The templates of the concurrent model: a send and a receive.
ConcTemplates ==
    { MakeTemplate(bt, "a2", SomeHash, <<>>, 0, <<>>, FreshLinkage) :
        bt \in {"userSend", "userReceive"} }

\* The optional progress observer: absent, well-behaved, or throwing.
Observers == {"none", "ok", "throws"}

\* ------------------------------------------------------- the collaborators

\* Answers of plasma.getRequiredPoWForAccountBlock.
PlasmaResponses ==
    [availablePlasma : {0, 2}, basePlasma : {1}, requiredDifficulty : 0..MaxDifficulty]

\* Nonces generatePoW may return (hex text).
PaddedNonce == [i \in 1..16 |-> IF i < 15 THEN "0" ELSE IF i = 15 THEN "a" ELSE "b"]
SolverNonces == { ZeroNonce, <<"a", "b">>, PaddedNonce }

\* Answers of ledger.getBlockByHash: null, or an account block (of which
\* the pipeline reads toAddress).
BlockByHashResponses == {<<>>} \cup { <<[toAddress |-> a]>> : a \in Addresses }

\* A block another client published on a2's chain before the model starts.
ExistingBlock ==
    [EmptyTemplate EXCEPT
        !.address = "a2", !.toAddress = "a1", !.height = 1,
        !.hash = NewHash(<<"h0">>), !.nonce = ZeroNonce]

\* ledger.getFrontierBlock(address): the last block of the account's chain.
FrontierBlock(ch, address) ==
    IF address \in DOMAIN ch /\ Len(ch[address]) > 0
    THEN <<ch[address][Len(ch[address])]>>
    ELSE <<>>

MomentumAt(h) == [hash |-> NewHash(<<"momentum", h>>), height |-> h]

\* What a collaborator's failure throws, and what `throw Error()` throws.
CollaboratorError(op) == [name |-> "Error", message |-> <<"failed", op>>]
PlainError == [name |-> "Error", message |-> <<>>]

\* The value each rule of _checkAndSetFields throws: `throw Error()` at
\* lines 109, 114, 117, 121 and 126 alike.
RuleLines == {"line 109", "line 114", "line 117", "line 121", "line 126"}
ValidationError(line) == PlainError

\* ---------------------------------------------------------------- state

VARIABLES
    pc,        \* per pipeline: the collaborator call send is about to make
    tx,        \* per pipeline: the AccountBlockTemplate it mutates
    given,     \* per pipeline: the template as the caller handed it to send
    keyPair,   \* per pipeline: currentKeyPair
    observer,  \* per pipeline: generatingPowCallback
    local,     \* per pipeline: the local variables of the stages
    outcome,   \* per pipeline: <<>> running, <<"returned">>, <<"thrown", e>>
    trace,     \* per pipeline: the calls, returns and throws of this run
    written,   \* per pipeline: the template fields this run has assigned
    runs,      \* per pipeline: how many times its caller has invoked send
    chain,     \* the ledger: per account, the blocks published for it
    momentum   \* the ledger: the frontier momentum

vars == <<pc, tx, given, keyPair, observer, local, outcome, trace, written, runs,
          chain, momentum>>

Procs == {1, 2}

NoLocals ==
    [frontierAccountBlock |-> <<>>, frontierMomentum |-> <<>>,
     sendBlock |-> <<>>, response |-> <<>>, powData |-> <<>>, powNonce |-> <<>>]

Init ==
    /\ pc = [p \in Procs |-> "idle"]
    /\ tx = [p \in Procs |-> EmptyTemplate]
    /\ given = [p \in Procs |-> EmptyTemplate]
    /\ keyPair = [p \in Procs |-> CHOOSE k \in KeyPairs : k.address = "a1"]
    /\ observer = [p \in Procs |-> "none"]
    /\ local = [p \in Procs |-> NoLocals]
    /\ outcome = [p \in Procs |-> <<>>]
    /\ trace = [p \in Procs |-> <<>>]
    /\ written = [p \in Procs |-> {}]
    /\ runs = [p \in Procs |-> 0]
    /\ chain = [a \in Addresses |-> IF a = "a2" THEN <<ExistingBlock>> ELSE <<>>]
    /\ momentum = MomentumAt(1)

\* ------------------------------------------------------------------ send

\* The stages send awaits, in order.
SendMutSwapped ==
    <<"_checkAndSetFields", "_setHashAndSignature", "_setDifficulty",
      "publishRawTransaction">>
SendStages ==
    <<"_checkAndSetFields", "_setDifficulty", "_setHashAndSignature",
      "publishRawTransaction">>

\* The first collaborator call of each stage.
EntryCall(stage) ==
    CASE stage = "_checkAndSetFields" -> "getAddress"
      [] stage = "_setDifficulty" -> "getRequiredPoWForAccountBlock"
      [] stage = "_setHashAndSignature" -> "getTransactionHash"
      [] stage = "publishRawTransaction" -> "publishRawTransaction"

\* Where send goes on when `stage` has returned.
AfterStageMutStuck(stage) ==
    LET i == CHOOSE k \in 1..Len(SendStages) : SendStages[k] = stage
    IN  IF i = Len(SendStages) THEN "done"
        ELSE IF i = 1 THEN "waitForRequiredPlasma"
        ELSE EntryCall(SendStages[i + 1])
AfterStage(stage) ==
    LET i == CHOOSE k \in 1..Len(SendStages) : SendStages[k] = stage
    IN  IF i = Len(SendStages) THEN "done" ELSE EntryCall(SendStages[i + 1])

Call(op) == <<"call", op>>
Return(stage) == <<"return", stage>>
Throw(line) == <<"throw", line>>
Failure(op) == <<"fail", op>>
Notify(status) == <<"notify", status>>

\* A stage of pipeline p returns: send awaits the next one.
Returns(p, stage, events) ==
    /\ trace' = [trace EXCEPT ![p] = @ \o events \o <<Return(stage)>>]
    /\ pc' = [pc EXCEPT ![p] = AfterStage(stage)]
    /\ outcome' = [outcome EXCEPT ![p] =
                      IF AfterStage(stage) = "done" THEN <<"returned">> ELSE @]

\* Pipeline p goes on to its next call inside the same stage.
GoesOn(p, next, events) ==
    /\ trace' = [trace EXCEPT ![p] = @ \o events]
    /\ pc' = [pc EXCEPT ![p] = next]
    /\ UNCHANGED outcome

\* An exception leaves send: the rejection is the outcome of the run.
ThrowsMutSwallowed(p, e, events) ==
    /\ trace' = [trace EXCEPT ![p] = @ \o events]
    /\ pc' = [pc EXCEPT ![p] = EntryCall("publishRawTransaction")]
    /\ UNCHANGED outcome
Throws(p, e, events) ==
    /\ trace' = [trace EXCEPT ![p] = @ \o events]
    /\ pc' = [pc EXCEPT ![p] = "failed"]
    /\ outcome' = [outcome EXCEPT ![p] = <<"thrown", e>>]

\* The call of `op` by pipeline p, with the arguments the claims read.
CallEvent(p, op) ==
    CASE op = "generatePoW" ->
            <<"call", op, local[p].powData[1], tx[p].difficulty>>
      [] op = "sign" -> <<"call", op, HashBytes(tx[p].hash)>>
      [] OTHER -> Call(op)

\* A collaborator call of pipeline p fails.
FailsMutRetry(p, op) ==
    /\ pc[p] = op
    /\ GoesOn(p, op, <<CallEvent(p, op), Failure(op)>>)
    /\ UNCHANGED <<tx, given, keyPair, observer, local, written, runs, chain, momentum>>
Fails(p, op) ==
    /\ pc[p] = op
    /\ Throws(p, CollaboratorError(op), <<CallEvent(p, op), Failure(op)>>)
    /\ UNCHANGED <<tx, given, keyPair, observer, local, written, runs, chain, momentum>>

\* A caller invokes send(zenon, t, kp, cb) as pipeline p.
Send(p, t, kp, cb) ==
    /\ pc[p] \in {"idle", "done", "failed"}
    /\ runs' = [runs EXCEPT ![p] = @ + 1]
    /\ tx' = [tx EXCEPT ![p] = t]
    /\ given' = [given EXCEPT ![p] = t]
    /\ keyPair' = [keyPair EXCEPT ![p] = kp]
    /\ observer' = [observer EXCEPT ![p] = cb]
    /\ local' = [local EXCEPT ![p] = NoLocals]
    /\ outcome' = [outcome EXCEPT ![p] = <<>>]
    /\ trace' = [trace EXCEPT ![p] = <<>>]
    /\ written' = [written EXCEPT ![p] = {}]
    /\ pc' = [pc EXCEPT ![p] = EntryCall(SendStages[1])]
    /\ UNCHANGED <<chain, momentum>>

\* ---------------------------------------------------- _checkAndSetFields

\* Line 101: transaction.address = await currentKeyPair.getAddress().
GetAddress(p) ==
    /\ pc[p] = "getAddress"
    /\ tx' = [tx EXCEPT ![p].address = keyPair[p].address]
    /\ written' = [written EXCEPT ![p] = @ \cup {"address"}]
    /\ GoesOn(p, "getPublicKey", <<Call("getAddress")>>)
    /\ UNCHANGED <<given, keyPair, observer, local, runs, chain, momentum>>

\* Line 102: transaction.publicKey = await currentKeyPair.getPublicKey().
GetPublicKey(p) ==
    /\ pc[p] = "getPublicKey"
    /\ tx' = [tx EXCEPT ![p].publicKey = keyPair[p].publicKey]
    /\ written' = [written EXCEPT ![p] = @ \cup {"publicKey"}]
    /\ GoesOn(p, "getFrontierBlock", <<Call("getPublicKey")>>)
    /\ UNCHANGED <<given, keyPair, observer, local, runs, chain, momentum>>

\* Lines 80-89: height and previousHash from the frontier block, if any.
LinkageMutNoIncrement(frontier) ==
    IF frontier # <<>>
    THEN [height |-> frontier[1].height, previousHash |-> frontier[1].hash]
    ELSE [height |-> 1, previousHash |-> emptyHash]
Linkage(frontier) ==
    IF frontier # <<>>
    THEN [height |-> frontier[1].height + 1, previousHash |-> frontier[1].hash]
    ELSE [height |-> 1, previousHash |-> emptyHash]

\* Lines 79-89: the first read of _autofillTransactionParameters.
GetFrontierBlockMutKeep(p) ==
    /\ pc[p] = "getFrontierBlock"
    /\ LET frontier == FrontierBlock(chain, tx[p].address)
       IN  /\ local' = [local EXCEPT ![p].frontierAccountBlock = frontier]
           /\ tx' = IF tx[p].height # 0 THEN tx
                    ELSE [tx EXCEPT ![p].height = Linkage(frontier).height,
                                    ![p].previousHash = Linkage(frontier).previousHash]
    /\ written' = [written EXCEPT ![p] = @ \cup {"height", "previousHash"}]
    /\ GoesOn(p, "getFrontierMomentum", <<Call("getFrontierBlock")>>)
    /\ UNCHANGED <<given, keyPair, observer, runs, chain, momentum>>
GetFrontierBlock(p) ==
    /\ pc[p] = "getFrontierBlock"
    /\ LET frontier == FrontierBlock(chain, tx[p].address)
       IN  /\ local' = [local EXCEPT ![p].frontierAccountBlock = frontier]
           /\ tx' = [tx EXCEPT ![p].height = Linkage(frontier).height,
                               ![p].previousHash = Linkage(frontier).previousHash]
    /\ written' = [written EXCEPT ![p] = @ \cup {"height", "previousHash"}]
    /\ GoesOn(p, "getFrontierMomentum", <<Call("getFrontierBlock")>>)
    /\ UNCHANGED <<given, keyPair, observer, runs, chain, momentum>>

\* Line 108: transaction.fromBlockHash == emptyHash compares two objects.
FromBlockHashIsEmptyHash(t) == t.fromBlockHash.obj = emptyHash.obj

\* Lines 113-122: the rules on the referenced send block; the line that
\* throws, or "none".
SendBlockMutNullAccepted(t, sendBlock) ==
    IF sendBlock = <<>> THEN "none"
    ELSE IF ~(AddressToString(sendBlock[1].toAddress) = AddressToString(t.address)) THEN "line 117"
    ELSE IF Len(t.data) > 0 THEN "line 121"
    ELSE "none"
SendBlockMutNoAddressRule(t, sendBlock) ==
    IF sendBlock = <<>> THEN "line 114"
    ELSE IF t.data # <<>> THEN "line 121"
    ELSE "none"
SendBlockMutNoDataRule(t, sendBlock) ==
    IF sendBlock = <<>> THEN "line 114"
    ELSE IF AddressToString(sendBlock[1].toAddress) # AddressToString(t.address) THEN "line 117"
    ELSE "none"
SendBlockRule(t, sendBlock) ==
    IF sendBlock = <<>> THEN "line 114"
    ELSE IF ~(AddressToString(sendBlock[1].toAddress) = AddressToString(t.address)) THEN "line 117"
    ELSE IF Len(t.data) > 0 THEN "line 121"
    ELSE "none"

\* Line 125: difficulty set without a nonce.
DifficultyGuardMutSendOnly(t) ==
    isSendBlock(t.blockType) /\ t.difficulty > 0 /\ t.nonce = <<>>
DifficultyGuard(t) == t.difficulty > 0 /\ t.nonce = <<>>

\* Lines 125-128: the last rule, then `return true`.
FinishCheck(p, t, events) ==
    IF DifficultyGuard(t)
    THEN Throws(p, ValidationError("line 126"), events \o <<Throw("line 126")>>)
    ELSE Returns(p, "_checkAndSetFields", events)

\* Lines 91-94, then lines 106-112 up to the next await.
GetFrontierMomentum(p) ==
    /\ pc[p] = "getFrontierMomentum"
    /\ local' = [local EXCEPT ![p].frontierMomentum = <<momentum>>]
    /\ tx' = [tx EXCEPT ![p].momentumAcknowledged =
                 [hash |-> momentum.hash, height |-> momentum.height]]
    /\ written' = [written EXCEPT ![p] = @ \cup {"momentumAcknowledged"}]
    /\ LET events == <<Call("getFrontierMomentum")>>
       IN  IF isSendBlock(tx'[p].blockType)
           THEN FinishCheck(p, tx'[p], events)
           ELSE IF FromBlockHashIsEmptyHash(tx'[p])
                THEN Throws(p, ValidationError("line 109"), events \o <<Throw("line 109")>>)
                ELSE GoesOn(p, "getBlockByHash", events)
    /\ UNCHANGED <<given, keyPair, observer, runs, chain, momentum>>

\* Lines 112-128: the referenced send block, as the ledger answers.
GetBlockByHash(p, answers) ==
    /\ pc[p] = "getBlockByHash"
    /\ \E sendBlock \in answers :
        /\ local' = [local EXCEPT ![p].sendBlock = sendBlock]
        /\ LET events == <<Call("getBlockByHash")>>
               line == SendBlockRule(tx[p], sendBlock)
           IN  IF line # "none"
               THEN Throws(p, ValidationError(line), events \o <<Throw(line)>>)
               ELSE FinishCheck(p, tx[p], events)
    /\ UNCHANGED <<tx, given, keyPair, observer, written, runs, chain, momentum>>

\* -------------------------------------------------------- _setDifficulty

\* Lines 135-147: the fields the Plasma-Quota answer decides.  On the
\* proof-of-work path the nonce is left for the solver.
PlasmaMutSwapped(t, response) ==
    IF response.requiredDifficulty # 0
    THEN [t EXCEPT !.fusedPlasma = response.basePlasma,
                   !.difficulty = response.requiredDifficulty]
    ELSE [t EXCEPT !.fusedPlasma = response.availablePlasma,
                   !.difficulty = 0]
PlasmaFields(t, response) ==
    IF response.requiredDifficulty # 0
    THEN [t EXCEPT !.fusedPlasma = response.availablePlasma,
                   !.difficulty = response.requiredDifficulty]
    ELSE [t EXCEPT !.fusedPlasma = response.basePlasma,
                   !.difficulty = 0,
                   !.nonce = ZeroNonce]

\* Lines 132-138 and 144-148: the Plasma-Quota query and its branch.
GetRequiredPoW(p, answers) ==
    /\ pc[p] = "getRequiredPoWForAccountBlock"
    /\ \E response \in answers :
        /\ local' = [local EXCEPT ![p].response = <<response>>]
        /\ tx' = [tx EXCEPT ![p] = PlasmaFields(@, response)]
        /\ LET events == <<Call("getRequiredPoWForAccountBlock")>>
           IN  IF response.requiredDifficulty # 0
               THEN /\ written' = [written EXCEPT ![p] =
                                      @ \cup {"fusedPlasma", "difficulty"}]
                    /\ GoesOn(p, "_getPoWData", events)
               ELSE /\ written' = [written EXCEPT ![p] =
                                      @ \cup {"fusedPlasma", "difficulty", "nonce"}]
                    /\ Returns(p, "_setDifficulty", events)
    /\ UNCHANGED <<given, keyPair, observer, runs, chain, momentum>>

\* generatingPowCallback?.call(status): nothing without a callback.
ObserverEvents(cb, status) == IF cb = "none" THEN <<>> ELSE <<Notify(status)>>

\* Lines 138-141: the PoW input, the "generating" notification, and the
\* call of the solver with (powData, transaction.difficulty).
GetPoWData(p) ==
    /\ pc[p] = "_getPoWData"
    /\ local' = [local EXCEPT ![p].powData = <<_getPoWData(tx[p])>>]
    /\ LET events == <<Call("_getPoWData")>> \o ObserverEvents(observer[p], "generating")
       IN  IF observer[p] = "throws"
           THEN Throws(p, CollaboratorError("generatingPowCallback"),
                       events \o <<Failure("generatingPowCallback")>>)
           ELSE GoesOn(p, "generatePoW", events)
    /\ UNCHANGED <<tx, given, keyPair, observer, written, runs, chain, momentum>>

\* Line 141: what is stored of the solver's answer: answer + "".
NonceText(answer) == answer \o <<>>

\* Lines 141-148: the solver answers; the "done" notification.
GeneratePoW(p, answers) ==
    /\ pc[p] = "generatePoW"
    /\ \E answer \in answers :
        /\ local' = [local EXCEPT ![p].powNonce = <<answer>>]
        /\ tx' = [tx EXCEPT ![p].nonce = NonceText(answer)]
    /\ written' = [written EXCEPT ![p] = @ \cup {"nonce"}]
    /\ LET events == <<CallEvent(p, "generatePoW")>>
                        \o ObserverEvents(observer[p], "done")
       IN  IF observer[p] = "throws"
           THEN Throws(p, CollaboratorError("generatingPowCallback"),
                       events \o <<Failure("generatingPowCallback")>>)
           ELSE Returns(p, "_setDifficulty", events)
    /\ UNCHANGED <<given, keyPair, observer, runs, chain, momentum>>

\* -------------------------------------------------- _setHashAndSignature

\* Line 152: transaction.hash = await getTransactionHash(transaction).
GetTransactionHash(p) ==
    /\ pc[p] = "getTransactionHash"
    /\ tx' = [tx EXCEPT ![p].hash = getTransactionHash(tx[p])]
    /\ written' = [written EXCEPT ![p] = @ \cup {"hash"}]
    /\ GoesOn(p, "sign", <<Call("getTransactionHash")>>)
    /\ UNCHANGED <<given, keyPair, observer, local, runs, chain, momentum>>

\* Lines 153-155: the signature of the hash's bytes.
SignHash(p) ==
    /\ pc[p] = "sign"
    /\ tx' = [tx EXCEPT ![p].signature = _getTransactionSignature(keyPair[p], tx[p])]
    /\ written' = [written EXCEPT ![p] = @ \cup {"signature"}]
    /\ Returns(p, "_setHashAndSignature",
               <<CallEvent(p, "sign")>>)
    /\ UNCHANGED <<given, keyPair, observer, local, runs, chain, momentum>>

\* ------------------------------------------------------------- publish

\* Lines 169-171: the template is handed to the Ledger Writer, which
\* appends it to the chain of its account.
PublishRawTransaction(p) ==
    /\ pc[p] = "publishRawTransaction"
    /\ chain' = [chain EXCEPT ![tx[p].address] = Append(@, tx[p])]
    /\ Returns(p, "publishRawTransaction", <<Call("publishRawTransaction")>>)
    /\ UNCHANGED <<tx, given, keyPair, observer, local, written, runs, momentum>>

\* ---------------------------------------------------------- environment

\* The network confirms a new momentum.
MomentumTick ==
    /\ momentum.height < MaxMomentum
    /\ momentum' = MomentumAt(momentum.height + 1)
    /\ UNCHANGED <<pc, tx, given, keyPair, observer, local, outcome, trace,
                   written, runs, chain>>

\* The collaborator calls of a pipeline that can fail.
FailingCalls ==
    {"getAddress", "getPublicKey", "getFrontierBlock", "getFrontierMomentum",
     "getBlockByHash", "getRequiredPoWForAccountBlock", "_getPoWData",
     "generatePoW", "getTransactionHash", "sign", "publishRawTransaction"}

CallFails(p) == \E op \in FailingCalls : Fails(p, op)

\* ------------------------------------------------------- specifications

\* One pipeline, every template, a single invocation of send.
Start(p) ==
    /\ runs[p] = 0
    /\ \E t \in Templates, kp \in KeyPairs, cb \in Observers : Send(p, t, kp, cb)

Next ==
    \/ Start(1)
    \/ GetAddress(1)
    \/ GetPublicKey(1)
    \/ GetFrontierBlock(1)
    \/ GetFrontierMomentum(1)
    \/ GetBlockByHash(1, BlockByHashResponses)
    \/ GetRequiredPoW(1, PlasmaResponses)
    \/ GetPoWData(1)
    \/ GeneratePoW(1, SolverNonces)
    \/ GetTransactionHash(1)
    \/ SignHash(1)
    \/ PublishRawTransaction(1)
    \/ CallFails(1)
    \/ MomentumTick

Spec == Init /\ [][Next]_vars

\* Several callers, invoking send MaxRuns times between them on fresh
\* templates, against answers narrowed to one funded and one proof-of-work
\* case.
ConcPlasmaResponses ==
    { r \in PlasmaResponses : r.availablePlasma = 0 /\ r.requiredDifficulty <= 1 }
ConcSolverNonces == {PaddedNonce}
ConcBlockByHashResponses == {<<>>} \cup { <<[toAddress |-> "a1"]>> }
ConcKeyPairs == { k \in KeyPairs : k.address = "a1" }

TotalRuns == runs[1] + runs[2]

ConcStart(p) ==
    /\ TotalRuns < MaxRuns
    /\ \E t \in ConcTemplates, kp \in ConcKeyPairs : Send(p, t, kp, "none")

Pipeline(p) ==
    \/ ConcStart(p)
    \/ GetAddress(p)
    \/ GetPublicKey(p)
    \/ GetFrontierBlock(p)
    \/ GetFrontierMomentum(p)
    \/ GetBlockByHash(p, ConcBlockByHashResponses)
    \/ GetRequiredPoW(p, ConcPlasmaResponses)
    \/ GetPoWData(p)
    \/ GeneratePoW(p, ConcSolverNonces)
    \/ GetTransactionHash(p)
    \/ SignHash(p)
    \/ PublishRawTransaction(p)

NextConc == \E p \in Procs : Pipeline(p)

SpecConc == Init /\ [][NextConc]_vars

\* ------------------------------------------------------ reading a trace

IsCall(e, op) == e[1] = "call" /\ e[2] = op
CallsOf(p, op) == { i \in DOMAIN trace[p] : IsCall(trace[p][i], op) }
Called(p, op) == CallsOf(p, op) # {}
Happened(p, e) == \E i \in DOMAIN trace[p] : trace[p][i] = e
Failed(p, op) == Happened(p, Failure(op))
Aborted(p, i) == trace[p][i][1] \in {"throw", "fail"}

\* The stage of the pipeline a collaborator call belongs to.
ValidationCalls ==
    {"getAddress", "getPublicKey", "getFrontierBlock", "getFrontierMomentum",
     "getBlockByHash"}
PlasmaCalls == {"getRequiredPoWForAccountBlock", "_getPoWData", "generatePoW"}
StageRank(op) ==
    CASE op \in ValidationCalls -> 1
      [] op \in PlasmaCalls -> 2
      [] op = "getTransactionHash" -> 3
      [] op = "sign" -> 4
      [] op = "publishRawTransaction" -> 5

\* Event j of pipeline p comes after event e with nothing aborted before j.
After(p, j, e) ==
    /\ \E i \in 1..(j - 1) : trace[p][i] = e
    /\ \A i \in 1..(j - 1) : ~Aborted(p, i)

\* ------------------------------------------------------------------ C1

\* C1: in every run of send the calls of the stages come in the order
\* validation, plasma, hash, sign, publish; the Plasma-Quota query comes
\* only after _checkAndSetFields has returned, the hash computation only
\* after _setDifficulty has returned, sign only after the hash computation,
\* publishRawTransaction only after sign (and _setHashAndSignature) has
\* returned, and none of them after a throw or a failed call.
C1_StagesInOrder ==
    \A p \in Procs : \A j \in DOMAIN trace[p] :
        trace[p][j][1] = "call" =>
            LET op == trace[p][j][2] IN
            /\ \A i \in 1..(j - 1) :
                  /\ ~Aborted(p, i)
                  /\ trace[p][i][1] = "call" =>
                        StageRank(trace[p][i][2]) <= StageRank(op)
            /\ op = "getRequiredPoWForAccountBlock" =>
                  After(p, j, Return("_checkAndSetFields"))
            /\ op = "getTransactionHash" => After(p, j, Return("_setDifficulty"))
            /\ op = "sign" => After(p, j, Call("getTransactionHash"))
            /\ op = "publishRawTransaction" =>
                  /\ Called(p, "sign")
                  /\ After(p, j, Return("_setHashAndSignature"))

\* A run that went through the proof-of-work path and published.
C1_Witness ==
    \E p \in Procs :
        /\ pc[p] = "done"
        /\ Called(p, "generatePoW")
        /\ Called(p, "publishRawTransaction")

\* ------------------------------------------------------------------ C2

PipelineFields ==
    {"address", "publicKey", "height", "previousHash", "momentumAcknowledged",
     "fusedPlasma", "difficulty", "nonce", "hash", "signature"}

\* C2: publishRawTransaction is invoked in a run only if nothing before it
\* in that run threw or failed, and only when the run has assigned address,
\* publicKey, height, previousHash, momentumAcknowledged, fusedPlasma,
\* difficulty, nonce, hash and signature; a run whose outcome is an
\* exception raised before the publish call has not invoked it.
C2_NoPartialPublish ==
    \A p \in Procs :
        /\ \A j \in CallsOf(p, "publishRawTransaction") :
              /\ \A i \in 1..(j - 1) : ~Aborted(p, i)
              /\ PipelineFields \subseteq written[p]
        /\ (\E i \in DOMAIN trace[p] :
               Aborted(p, i) /\ trace[p][i] # Failure("publishRawTransaction"))
              => ~Called(p, "publishRawTransaction")

\* A run that published, and a run that failed, occur: here the published one.
C2_Witness ==
    \E p \in Procs :
        /\ Called(p, "publishRawTransaction")
        /\ pc[p] = "done"
        /\ PipelineFields \subseteq written[p]
        /\ given[p].difficulty > 0

\* ------------------------------------------------------------------ C3

\* getBlockByHash answered null in the run of pipeline p.
SendBlockAbsent(p) ==
    /\ Called(p, "getBlockByHash")
    /\ ~Failed(p, "getBlockByHash")
    /\ local[p].sendBlock = <<>>

\* C3: when getBlockByHash answers null for a receive-type template, send
\* has thrown from the Validation Gate and the Plasma-Quota query, the PoW
\* solver, sign and publishRawTransaction were not called in that run.
C3_UnresolvedReceiveFails ==
    \A p \in Procs :
        (isReceiveBlock(tx[p].blockType) /\ SendBlockAbsent(p)) =>
            /\ pc[p] = "failed"
            /\ outcome[p] = <<"thrown", PlainError>>
            /\ ~Happened(p, Return("_checkAndSetFields"))
            /\ \A op \in {"getRequiredPoWForAccountBlock", "generatePoW", "sign",
                          "publishRawTransaction"} : ~Called(p, op)

C3_Witness ==
    \E p \in Procs :
        /\ isReceiveBlock(tx[p].blockType)
        /\ SendBlockAbsent(p)
        /\ tx[p].fromBlockHash = SomeHash
        /\ Happened(p, Throw("line 114"))

\* ------------------------------------------------------------------ C4

\* _autofillTransactionParameters has completed in the run of pipeline p.
AutofillDone(p) ==
    Called(p, "getFrontierMomentum") /\ ~Failed(p, "getFrontierMomentum")

\* C4: once autofill has completed, height is 1 and previousHash the
\* empty-hash sentinel if getFrontierBlock answered null, otherwise height
\* is the frontier's height plus one and previousHash the frontier's hash;
\* momentumAcknowledged is the {hash, height} getFrontierMomentum answered.
C4_AutofillResult ==
    \A p \in Procs :
        AutofillDone(p) =>
            LET frontier == local[p].frontierAccountBlock
                fm == local[p].frontierMomentum[1]
            IN  /\ frontier = <<>> =>
                      tx[p].height = 1 /\ tx[p].previousHash = emptyHash
                /\ frontier # <<>> =>
                      /\ tx[p].height = frontier[1].height + 1
                      /\ tx[p].previousHash = frontier[1].hash
                /\ tx[p].momentumAcknowledged = [hash |-> fm.hash, height |-> fm.height]
                /\ frontier = FrontierBlock(chain, keyPair[p].address)
                      \/ Called(p, "publishRawTransaction")

\* Autofill has overwritten stale linkage values with a frontier's.
C4_Witness ==
    \E p \in Procs :
        /\ AutofillDone(p)
        /\ local[p].frontierAccountBlock # <<>>
        /\ given[p].height = StaleLinkage.height
        /\ given[p].previousHash = StaleLinkage.previousHash
        /\ tx[p].height = 2
        /\ tx[p].momentumAcknowledged # given[p].momentumAcknowledged

\* ------------------------------------------------------------------ C5

\* C5: on every account's chain of published blocks the first block has
\* height 1 and previousHash the empty-hash sentinel, every later block has
\* the height of the block before it plus one and that block's hash as
\* previousHash, and no two blocks share a height.
C5_ChainLinked ==
    \A a \in Addresses : \A i \in DOMAIN chain[a] :
        /\ i = 1 => chain[a][i].height = 1 /\ chain[a][i].previousHash = emptyHash
        /\ i > 1 =>
              /\ chain[a][i].height = chain[a][i - 1].height + 1
              /\ chain[a][i].previousHash = chain[a][i - 1].hash
        /\ \A j \in DOMAIN chain[a] : j # i => chain[a][j].height # chain[a][i].height

\* ------------------------------------------------------------------ C6

\* The Validation Gate has let the run of pipeline p through.
Validated(p) == Happened(p, Return("_checkAndSetFields"))

\* C6: a receive-type template whose fromBlockHash has the bytes of the
\* empty-hash sentinel never passes the Validation Gate and is never
\* published, whichever Hash object carries those bytes.
C6_EmptyFromBlockHashFails ==
    \A p \in Procs :
        (isReceiveBlock(tx[p].blockType) /\ HashBytes(tx[p].fromBlockHash) = ZeroBytes) =>
            /\ ~Validated(p)
            /\ ~Called(p, "publishRawTransaction")

\* ------------------------------------------------------------------ C7

\* getBlockByHash answered a send block addressed to someone else.
SendBlockMismatch(p) ==
    /\ local[p].sendBlock # <<>>
    /\ local[p].sendBlock[1].toAddress # keyPair[p].address

\* C7: when the send block a receive-type template references has a
\* toAddress other than the address of the caller's key material, the run
\* has thrown from the Validation Gate: it never passes validation, makes no
\* later call, and publishes nothing.
C7_AddressMismatchFails ==
    \A p \in Procs :
        (isReceiveBlock(tx[p].blockType) /\ SendBlockMismatch(p)) =>
            /\ tx[p].address = keyPair[p].address
            /\ pc[p] = "failed"
            /\ outcome[p] = <<"thrown", PlainError>>
            /\ ~Validated(p)
            /\ \A op \in PlasmaCalls \cup {"getTransactionHash", "sign",
                                          "publishRawTransaction"} : ~Called(p, op)

\* The mismatch is the only rule the template breaks.
C7_Witness ==
    \E p \in Procs :
        /\ isReceiveBlock(tx[p].blockType)
        /\ SendBlockMismatch(p)
        /\ tx[p].data = <<>>
        /\ ~DifficultyGuard(tx[p])
        /\ given[p].fromBlockHash = SomeHash
        /\ pc[p] = "failed"

\* ------------------------------------------------------------------ C8

\* The calls made while _checkAndSetFields runs.
InValidation(p) == pc[p] \in ValidationCalls

\* C8: a receive-type template with non-empty data never passes the
\* Validation Gate: its run is still inside the gate or has thrown, whatever
\* the other receive rules found, and nothing of it is published; every
\* receive block on the ledger carries empty data.
C8_ReceiveDataFails ==
    /\ \A p \in Procs :
          (runs[p] > 0 /\ isReceiveBlock(tx[p].blockType) /\ Len(tx[p].data) > 0) =>
              /\ InValidation(p) \/ pc[p] = "failed"
              /\ ~Validated(p)
              /\ ~Called(p, "publishRawTransaction")
    /\ \A a \in Addresses : \A i \in DOMAIN chain[a] :
          isReceiveBlock(chain[a][i].blockType) => chain[a][i].data = <<>>

\* Non-empty data is the only rule the template breaks: the referenced send
\* block exists and is addressed to the caller.
C8_Witness ==
    \E p \in Procs :
        /\ isReceiveBlock(tx[p].blockType)
        /\ Len(tx[p].data) > 0
        /\ local[p].sendBlock # <<>>
        /\ ~SendBlockMismatch(p)
        /\ Happened(p, Throw("line 121"))
        /\ pc[p] = "failed"

\* ------------------------------------------------------------------ C9

\* The Plasma-Quota query of pipeline p answered requiredDifficulty = 0.
Funded(p) ==
    local[p].response # <<>> /\ local[p].response[1].requiredDifficulty = 0

\* C9: once the Plasma-Quota query has answered requiredDifficulty = 0,
\* fusedPlasma is the answer's basePlasma, difficulty is 0 and nonce is
\* "0000000000000000" whatever the template held before, _setDifficulty has
\* returned, the PoW solver was not called and no observer was notified.
C9_FundedPath ==
    \A p \in Procs :
        Funded(p) =>
            /\ tx[p].fusedPlasma = local[p].response[1].basePlasma
            /\ tx[p].difficulty = 0
            /\ tx[p].nonce = ZeroNonce
            /\ Happened(p, Return("_setDifficulty"))
            /\ ~Called(p, "_getPoWData")
            /\ ~Called(p, "generatePoW")
            /\ \A i \in DOMAIN trace[p] : trace[p][i][1] # "notify"

\* The funded path overwrote a difficulty and a nonce the caller had set,
\* with an observer present.
C9_Witness ==
    \E p \in Procs :
        /\ Funded(p)
        /\ given[p].difficulty > 0
        /\ given[p].nonce = StaleNonce
        /\ observer[p] = "ok"
        /\ tx[p].nonce = ZeroNonce

\* ------------------------------------------------------------------ C10

\* The Plasma-Quota query of pipeline p answered requiredDifficulty > 0.
NeedsPoW(p) ==
    local[p].response # <<>> /\ local[p].response[1].requiredDifficulty > 0

\* The solver call the claim expects: the digest of the address of the key
\* material and of the previousHash autofill took from the frontier, and the
\* required difficulty.
ExpectedPoWCall(p) ==
    LET frontier == local[p].frontierAccountBlock
        previousHash == IF frontier = <<>> THEN emptyHash ELSE frontier[1].hash
    IN  << "call", "generatePoW",
           Digest(<<AddressBytes(keyPair[p].address), HashBytes(previousHash)>>),
           local[p].response[1].requiredDifficulty >>

\* C10: once the Plasma-Quota query has answered requiredDifficulty > 0,
\* fusedPlasma is the answer's availablePlasma and difficulty the required
\* difficulty; the PoW solver is called at most once, with the digest of
\* concat(address, previousHash) of this run and that difficulty; and when
\* _setDifficulty has returned it was called exactly once and nonce is the
\* solver's answer, unchanged.
C10_PoWPath ==
    \A p \in Procs :
        NeedsPoW(p) =>
            /\ tx[p].fusedPlasma = local[p].response[1].availablePlasma
            /\ tx[p].difficulty = local[p].response[1].requiredDifficulty
            /\ Cardinality(CallsOf(p, "generatePoW")) <= 1
            /\ \A i \in CallsOf(p, "generatePoW") : trace[p][i] = ExpectedPoWCall(p)
            /\ Happened(p, Return("_setDifficulty")) =>
                  /\ Cardinality(CallsOf(p, "generatePoW")) = 1
                  /\ local[p].powNonce # <<>>
                  /\ tx[p].nonce = local[p].powNonce[1]

\* The proof-of-work path completed on a chain with a frontier, the solver's
\* nonce replacing one the caller had set.
C10_Witness ==
    \E p \in Procs :
        /\ NeedsPoW(p)
        /\ Happened(p, Return("_setDifficulty"))
        /\ local[p].frontierAccountBlock # <<>>
        /\ given[p].nonce = StaleNonce
        /\ tx[p].nonce = PaddedNonce

\* ------------------------------------------------------------------ C11

\* The Plasma Fusion Policy has let the run of pipeline p through.
PlasmaDone(p) == Happened(p, Return("_setDifficulty"))

\* C11: in every template that has passed the Plasma Fusion Policy, and in
\* every published block, nonce is "0000000000000000" exactly when
\* difficulty is 0.
C11_ZeroNonceIffNoDifficulty ==
    /\ \A p \in Procs :
          PlasmaDone(p) => (tx[p].nonce = ZeroNonce <=> tx[p].difficulty = 0)
    /\ \A a \in Addresses : \A i \in DOMAIN chain[a] :
          chain[a][i].nonce = ZeroNonce <=> chain[a][i].difficulty = 0

\* ------------------------------------------------------------------ C12

\* The hash of the run of pipeline p has been computed.
Hashed(p) == Called(p, "getTransactionHash") /\ ~Failed(p, "getTransactionHash")

\* C12: from the hash computation of a run on, and so when the template is
\* handed to publishRawTransaction, hash is getTransactionHash of the
\* template's fields as they are; sign is called on the bytes of that hash;
\* every block the pipeline published carries the hash of its own fields.
C12_HashOfFields ==
    /\ \A p \in Procs :
          Hashed(p) =>
              /\ tx[p].hash = getTransactionHash(tx[p])
              /\ PlasmaDone(p)
              /\ \A i \in CallsOf(p, "sign") :
                    trace[p][i] = <<"call", "sign", HashBytes(getTransactionHash(tx[p]))>>
    /\ \A p \in Procs :
          Called(p, "publishRawTransaction") =>
              /\ Hashed(p)
              /\ Called(p, "sign")
    /\ \A a \in Addresses : \A i \in DOMAIN chain[a] :
          chain[a][i] # ExistingBlock =>
              chain[a][i].hash = getTransactionHash(chain[a][i])

\* A block that went through the proof-of-work path is on the ledger with
\* the hash of its fields.
C12_Witness ==
    \E p \in Procs :
        /\ pc[p] = "done"
        /\ tx[p].difficulty > 0
        /\ tx[p].nonce = PaddedNonce
        /\ given[p].height = StaleLinkage.height
        /\ \E i \in DOMAIN chain[tx[p].address] : chain[tx[p].address][i] = tx[p]

\* ------------------------------------------------------------------ C13

\* C13: every send-type template handed to publishRawTransaction, and every
\* send block on the ledger, has the empty-hash sentinel as fromBlockHash.
C13_SendFromBlockHashEmpty ==
    /\ \A p \in Procs :
          (isSendBlock(tx[p].blockType) /\ Called(p, "publishRawTransaction")) =>
              HashBytes(tx[p].fromBlockHash) = ZeroBytes
    /\ \A a \in Addresses : \A i \in DOMAIN chain[a] :
          isSendBlock(chain[a][i].blockType) =>
              HashBytes(chain[a][i].fromBlockHash) = ZeroBytes

\* ------------------------------------------------------------------ C15

\* C15: a progress observer that throws does not affect the pipeline: no
\* run of send is ended by the observer's exception, on the "generating" or
\* on the "done" notification.
C15_ObserverFailureIgnored ==
    \A p \in Procs :
        /\ outcome[p] # <<"thrown", CollaboratorError("generatingPowCallback")>>
        /\ ~Failed(p, "generatingPowCallback")

\* ------------------------------------------------------ the encoder alone

\* Fully populated templates handed to getTransactionHash directly.
EncTemplates ==
    { [MakeTemplate("userSend", to, emptyHash, data, diff, nonce, FreshLinkage) EXCEPT
          !.address = "a1", !.height = h, !.fusedPlasma = 1, !.publicKey = "pk1"] :
        to \in Addresses, data \in {<<>>, <<"d">>}, diff \in {0, 1},
        nonce \in {<<>>, StaleNonce, PaddedNonce, ZeroNonce}, h \in {1, 2} }

InitEnc ==
    /\ tx \in [Procs -> EncTemplates]
    /\ given = tx
    /\ pc = [p \in Procs |-> "idle"]
    /\ keyPair = [p \in Procs |-> CHOOSE k \in KeyPairs : k.address = "a1"]
    /\ observer = [p \in Procs |-> "none"]
    /\ local = [p \in Procs |-> NoLocals]
    /\ outcome = [p \in Procs |-> <<>>]
    /\ trace = [p \in Procs |-> <<>>]
    /\ written = [p \in Procs |-> {}]
    /\ runs = [p \in Procs |-> 0]
    /\ chain = [a \in Addresses |-> <<>>]
    /\ momentum = MomentumAt(1)

\* A caller computes the hash of template p: BlockUtils.getTransactionHash.
HashTemplate(p) ==
    /\ pc[p] = "idle"
    /\ tx' = [tx EXCEPT ![p].hash = getTransactionHash(tx[p])]
    /\ written' = [written EXCEPT ![p] = {"hash"}]
    /\ pc' = [pc EXCEPT ![p] = "hashed"]
    /\ outcome' = [outcome EXCEPT ![p] = <<"returned">>]
    /\ UNCHANGED <<given, keyPair, observer, local, trace, runs, chain, momentum>>

NextEnc == \E p \in Procs : HashTemplate(p)

SpecEnc == InitEnc /\ [][NextEnc]_vars

\* ------------------------------------------------------------------ C14

\* The template fields getTransactionHash encodes.
EncodedFields ==
    {"version", "chainIdentifier", "blockType", "previousHash", "height",
     "momentumAcknowledged", "address", "toAddress", "amount", "tokenStandard",
     "fromBlockHash", "data", "fusedPlasma", "difficulty", "nonce"}

DifferingFields(t1, t2) == { f \in EncodedFields : t1[f] # t2[f] }

\* The eight bytes a nonce string stands for.
NonceValue(nonce) == LeftPadBytes(BufferFromHex(nonce), 8)

BothHashed == \A p \in Procs : pc[p] = "hashed"

\* C14 as claimed: two templates that differ in exactly one encoded field,
\* a nonce string of another length included, have different encodings and
\* different hashes.
C14_EncodingInjective ==
    (BothHashed /\ Cardinality(DifferingFields(given[1], given[2])) = 1) =>
        /\ TransactionBytes(given[1]) # TransactionBytes(given[2])
        /\ tx[1].hash # tx[2].hash

\* C14 amended: two templates that differ in exactly one encoded field have
\* different encodings and different hashes, unless that field is nonce and
\* the two nonce strings stand for the same eight bytes.
C14_EncodingInjectiveOnValues ==
    (/\ BothHashed
     /\ Cardinality(DifferingFields(given[1], given[2])) = 1
     /\ NonceValue(given[1].nonce) = NonceValue(given[2].nonce) =>
           given[1].nonce = given[2].nonce) =>
        /\ TransactionBytes(given[1]) # TransactionBytes(given[2])
        /\ tx[1].hash # tx[2].hash

\* Two hashed templates that differ in difficulty alone.
C14_Witness ==
    /\ BothHashed
    /\ DifferingFields(given[1], given[2]) = {"difficulty"}
    /\ given[1].nonce = StaleNonce
    /\ tx[1].hash # tx[2].hash

\* ------------------------------------------------------------------ C16

\* C16: the error a run of _checkAndSetFields ends with tells which rule
\* was violated: it is not the error any of the other four rules throws.
C16_RuleIdentifiable ==
    \A p \in Procs : \A line \in RuleLines :
        Happened(p, Throw(line)) =>
            /\ outcome[p] = <<"thrown", ValidationError(line)>>
            /\ \A other \in RuleLines \ {line} :
                  outcome[p] # <<"thrown", ValidationError(other)>>

\* ---------------------------------------------------------------- retry

\* The caller of pipeline p invokes send again on the template the earlier
\* run left behind, with the same key pair and observer.
Resend(p) ==
    /\ runs[p] > 0
    /\ runs[p] < MaxRuns
    /\ Send(p, tx[p], keyPair[p], observer[p])

\* One caller: a first invocation on a fresh template, then retries.
RetryStart(p) ==
    /\ runs[p] = 0
    /\ \E t \in ConcTemplates, kp \in KeyPairs : Send(p, t, kp, "none")

NextRetry ==
    \/ RetryStart(1)
    \/ Resend(1)
    \/ GetAddress(1)
    \/ GetPublicKey(1)
    \/ GetFrontierBlock(1)
    \/ GetFrontierMomentum(1)
    \/ GetBlockByHash(1, BlockByHashResponses)
    \/ GetRequiredPoW(1, ConcPlasmaResponses)
    \/ GetPoWData(1)
    \/ GeneratePoW(1, ConcSolverNonces)
    \/ GetTransactionHash(1)
    \/ SignHash(1)
    \/ PublishRawTransaction(1)
    \/ CallFails(1)
    \/ MomentumTick

SpecRetry == Init /\ [][NextRetry]_vars

\* ------------------------------------------------------------------ C17

\* The run of pipeline p is a retry on a left-behind template.
IsRetry(p) == runs[p] >= 2

\* C17: in a run of send on a template an earlier run left behind, once
\* autofill has completed height, previousHash and momentumAcknowledged are
\* those of the frontier block and frontier momentum read in this run, the
\* frontier block being the ledger's at that time; the block such a run
\* publishes is linked to the block that was the account's frontier, not to
\* what the earlier run had written.
C17_RetryReadsLedgerAgain ==
    \A p \in Procs :
        (IsRetry(p) /\ AutofillDone(p)) =>
            LET frontier == local[p].frontierAccountBlock
                fm == local[p].frontierMomentum[1]
                mine == chain[tx[p].address]
            IN  /\ tx[p].height = IF frontier = <<>> THEN 1 ELSE frontier[1].height + 1
                /\ tx[p].previousHash = IF frontier = <<>> THEN emptyHash ELSE frontier[1].hash
                /\ tx[p].momentumAcknowledged = [hash |-> fm.hash, height |-> fm.height]
                /\ fm.height <= momentum.height
                /\ ~Called(p, "publishRawTransaction") =>
                      frontier = FrontierBlock(chain, tx[p].address)
                /\ pc[p] = "done" =>
                      /\ mine[Len(mine)] = tx[p]
                      /\ tx[p].height = Len(mine)
                      /\ Len(mine) > 1 => tx[p].previousHash = mine[Len(mine) - 1].hash

\* A retry after a completed run: the template came back with the linkage of
\* the block already published and is published again, one block higher and
\* acknowledging a newer momentum.
C17_Witness ==
    \E p \in Procs :
        /\ IsRetry(p)
        /\ pc[p] = "done"
        /\ given[p].height = 1
        /\ given[p].hash # emptyHash
        /\ tx[p].height = 2
        /\ tx[p].previousHash = given[p].hash
        /\ tx[p].momentumAcknowledged.height > given[p].momentumAcknowledged.height

\* ------------------------------------------------------------------ C18

\* The collaborator operations of one run.
CollaboratorOps ==
    {"getAddress", "getPublicKey", "getFrontierBlock", "getFrontierMomentum",
     "getBlockByHash", "getRequiredPoWForAccountBlock", "generatePoW", "sign",
     "publishRawTransaction"}

\* What send rejects with when event e ended the run.
ErrorOf(e) == IF e[1] = "fail" THEN CollaboratorError(e[2]) ELSE ValidationError(e[2])

\* C18: within one run each collaborator operation is called at most once;
\* a collaborator failure or validation failure is the last event of the
\* run, so no collaborator is called after it, the run has then failed and
\* the failure is what send rejects with; a run fails in no other way.
C18_FailFast ==
    \A p \in Procs :
        /\ \A op \in CollaboratorOps : Cardinality(CallsOf(p, op)) <= 1
        /\ \A i \in DOMAIN trace[p] :
              Aborted(p, i) =>
                  /\ i = Len(trace[p])
                  /\ pc[p] = "failed"
                  /\ outcome[p] = <<"thrown", ErrorOf(trace[p][i])>>
        /\ pc[p] = "failed" => (trace[p] # <<>> /\ Aborted(p, Len(trace[p])))

\* A run that got as far as signing, after PoW, and failed there.
C18_Witness ==
    \E p \in Procs :
        /\ Failed(p, "sign")
        /\ Called(p, "generatePoW")
        /\ pc[p] = "failed"
        /\ outcome[p] = <<"thrown", CollaboratorError("sign")>>
        /\ ~Called(p, "publishRawTransaction")

\* ------------------------------------------------------------------ C19

\* C19: a run of send on a template with difficulty > 0 and an empty nonce,
\* send-type or receive-type, never passes validation: once it is out of
\* the validation calls it has failed, it makes no Plasma call and publishes
\* nothing; and the rule of line 126 rejects only such templates.
C19_DifficultyGuard ==
    \A p \in Procs :
        /\ (runs[p] > 0 /\ given[p].difficulty > 0 /\ given[p].nonce = <<>>) =>
              /\ ~Validated(p)
              /\ \A op \in PlasmaCalls \cup {"publishRawTransaction"} : ~Called(p, op)
              /\ ~InValidation(p) => pc[p] = "failed"
        /\ Happened(p, Throw("line 126")) =>
              /\ given[p].difficulty > 0
              /\ given[p].nonce = <<>>
              /\ tx[p].difficulty = given[p].difficulty
              /\ tx[p].nonce = given[p].nonce
        /\ (runs[p] > 0 /\ (given[p].difficulty = 0 \/ given[p].nonce # <<>>)) =>
              ~Happened(p, Throw("line 126"))

\* A receive-type template whose send block was found and matches, rejected
\* by the last rule.
C19_Witness ==
    \E p \in Procs :
        /\ isReceiveBlock(given[p].blockType)
        /\ Called(p, "getBlockByHash")
        /\ Happened(p, Throw("line 126"))
        /\ pc[p] = "failed"
        /\ ~Called(p, "getRequiredPoWForAccountBlock")

\* ------------------------------------------------------------- liveness

\* The pending collaborator call of pipeline p completes or fails.
Step(p) ==
    \/ GetAddress(p)
    \/ GetPublicKey(p)
    \/ GetFrontierBlock(p)
    \/ GetFrontierMomentum(p)
    \/ GetBlockByHash(p, BlockByHashResponses)
    \/ GetRequiredPoW(p, ConcPlasmaResponses)
    \/ GetPoWData(p)
    \/ GeneratePoW(p, ConcSolverNonces)
    \/ GetTransactionHash(p)
    \/ SignHash(p)
    \/ PublishRawTransaction(p)
    \/ CallFails(p)

\* The caller of SpecRetry, with every awaited call eventually settling.
SpecLive == SpecRetry /\ WF_vars(Step(1))

\* ------------------------------------------------------------------ C20

Running(p) == pc[p] \notin {"idle", "done", "failed"}
Ended(p) == pc[p] \in {"done", "failed"}

\* C20: when every collaborator call eventually completes or fails, a run
\* of send that has started eventually ends; it ends returned with the
\* template published, or failed with nothing published by that run.
C20_Terminates ==
    /\ \A p \in Procs : Running(p) ~> Ended(p)
    /\ [](\A p \in Procs :
            /\ pc[p] = "done" =>
                  /\ outcome[p] = <<"returned">>
                  /\ Called(p, "publishRawTransaction")
                  /\ chain[tx[p].address][Len(chain[tx[p].address])] = tx[p]
            /\ pc[p] = "failed" =>
                  /\ outcome[p] # <<>>
                  /\ outcome[p][1] = "thrown"
                  /\ ~(Called(p, "publishRawTransaction")
                         /\ ~Failed(p, "publishRawTransaction")))

\* A run that went through the PoW solver and ended published.
C20_Witness ==
    \E p \in Procs :
        /\ pc[p] = "done"
        /\ Called(p, "generatePoW")
        /\ Len(trace[p]) >= 10
        /\ outcome[p] = <<"returned">>

====
